---- MODULE Spec2Model ----
(***************************************************************************)
(* Calendar synchronisation and OAuth connection state of DarkKnight CRM.  *)
(*                                                                         *)
(* The specifications of this module:                                      *)
(*   SpecServer  the user_integrations table and the two proxy functions   *)
(*               (variant "A" = supabase/functions/google-auth,            *)
(*                variant "B" = the google-calendar function) together     *)
(*               with the table write of the client hook's disconnect;     *)
(*   SpecApi     the two functions as HTTP endpoints: configuration,       *)
(*               bearer, dispatch and the handlers that answer at once;    *)
(*   SpecHook    the client hook useGoogleCalendar: its state, the popup   *)
(*               flow of connect() and its asynchronous continuations;     *)
(*   SpecDialog  the same hook as the integration dialog drives it;        *)
(*   SpecOps     the event operations of the provider hook and of the      *)
(*               local hook;                                               *)
(*   SpecPage    the calendar page with the dialog inside it, end to end;  *)
(*   SpecCheck   checkConnection() as the page and the dialog await it;    *)
(*   SpecStore   the local hook useCalendarEvents on its table;            *)
(*   SpecMerge   the pure event formatting and merge of the calendar page. *)
(***************************************************************************)
EXTENDS Integers, Sequences, FiniteSets, TLC

VARIABLES
    user_integrations,  \* the table: a set of rows (the columns the handlers read)
    now,                \* the server clock (Date.now()), in abstract units
    req,                \* the calendar request in flight on a proxy function
    last,               \* the last successful write to the table
    state,              \* useGoogleCalendar: {isConnected, events, loading, error}
    attempts,           \* the connect() calls of the hook, in call order
    popups,             \* the windows opened as 'Connect Google Calendar'
    tasks,              \* the checkConnection() calls that await their answer
    dialog,             \* GoogleCalendarIntegration: its local state and timers
    ignored,            \* the checks at which a message listener has returned
    crmEvents,          \* useCalendarEvents: the local events
    formattedEvents,    \* Calendar: the list handed to the calendar widget
    page,               \* Calendar: its own useGoogleCalendar instance and flags
    ops,                \* the event operations of the two hooks in flight
    refused,            \* the event operations that returned at their guard
    resp,               \* the last request a proxy function answered at once
    calendar_events     \* the table of the local events, in insertion order

serverVars == <<user_integrations, now, req, last>>
hookVars == <<state, attempts, popups, tasks, dialog, ignored>>
pageVars == <<crmEvents, formattedEvents, page>>
opsVars == <<ops, refused>>
apiVars == <<resp>>
storeVars == <<calendar_events>>

\* What the actions of one part leave alone.
exceptServer == <<hookVars, pageVars, opsVars, apiVars, storeVars>>
exceptHook == <<serverVars, pageVars, opsVars, apiVars, storeVars>>
exceptPage == <<serverVars, hookVars, opsVars, apiVars, storeVars>>
exceptApi == <<hookVars, pageVars, opsVars, storeVars>>

vars == <<user_integrations, now, req, last, state, attempts, popups, tasks,
          dialog, ignored, crmEvents, formattedEvents, page, ops, refused, resp,
          calendar_events>>

-----------------------------------------------------------------------------
(* Bounds and value sets *)

MaxNow == 2
MaxTTL == 1

\* Users whose requests are modelled, and one more user whose record the
\* requests of the others must leave alone.
Users == {"u1"}
Bystander == "u2"
NoUser == "none"
Variants == {"A", "B"}
AccessTokens == {"at1", "at2"}
RefreshTokens == {"rt1"}
Null == "null"
Undefined == "undefined"
Provider == "google_calendar"
ProviderErrors == {401, 403}

NoResponse == [status |-> 0, body |-> "none"]
Idle == [pc |-> "idle", variant |-> "A", user |-> NoUser, found |-> FALSE,
         accessToken |-> Null, past |-> FALSE, oldExpiry |-> -1, newExpiry |-> -1,
         refreshed |-> Null, calls |-> <<>>, resp |-> NoResponse]
NoRow == [user_id |-> NoUser]
NoWrite == [op |-> "none", user |-> NoUser, was |-> "absent"]

-----------------------------------------------------------------------------
(* The table store *)

Row(u, at, rt, exp, en) ==
    [user_id |-> u, provider |-> Provider, access_token |-> at,
     refresh_token |-> rt, expires_at |-> exp, enabled |-> en]

\* .eq('user_id', u).eq('provider', 'google_calendar')
Matching(rows, u) == {r \in rows : r.user_id = u /\ r.provider = Provider}

\* .eq('enabled', true) on top of Matching
EnabledRows(rows, u) == {r \in Matching(rows, u) : r.enabled}

\* .single(): the row when exactly one matches, an error (PGRST116) otherwise
Single(S) ==
    IF Cardinality(S) = 1
    THEN [data |-> CHOOSE r \in S : TRUE, error |-> FALSE]
    ELSE [data |-> NoRow, error |-> TRUE]

\* A faulty upsert that inserts without looking for a conflicting row.
UpsertAlwaysInserts(rows, u, at, rt, exp) ==
    rows \cup {Row(u, at, IF rt = Undefined THEN Null ELSE rt, exp, TRUE)}

\* A faulty upsert whose conflict branch leaves enabled as it was.
UpsertKeepsEnabled(rows, u, at, rt, exp) ==
    LET old == Matching(rows, u) IN
    IF old = {}
    THEN rows \cup {Row(u, at, IF rt = Undefined THEN Null ELSE rt, exp, TRUE)}
    ELSE (rows \ old) \cup
         {[r EXCEPT !.access_token = at,
                    !.refresh_token = IF rt = Undefined THEN @ ELSE rt,
                    !.expires_at = exp] : r \in old}

\* .upsert({...}, {onConflict: 'user_id, provider'}).  A refresh_token that the
\* token response did not carry is undefined, so JSON drops the column: a new
\* row gets the column default (null), a conflicting row keeps its value.
Upsert(rows, u, at, rt, exp) ==
    LET old == Matching(rows, u) IN
    IF old = {}
    THEN rows \cup {Row(u, at, IF rt = Undefined THEN Null ELSE rt, exp, TRUE)}
    ELSE (rows \ old) \cup
         {[r EXCEPT !.access_token = at,
                    !.refresh_token = IF rt = Undefined THEN @ ELSE rt,
                    !.expires_at = exp, !.enabled = TRUE] : r \in old}

\* A faulty disconnect that deletes the row.
DisableDeletes(rows, u) == rows \ Matching(rows, u)

\* .update({enabled: false, updated_at}).eq(user_id).eq(provider)
Disable(rows, u) ==
    (rows \ Matching(rows, u)) \cup
    {[r EXCEPT !.enabled = FALSE] : r \in Matching(rows, u)}

\* A faulty refresh update that also writes enabled: true.
StoreRefreshedEnables(rows, u, at, exp) ==
    (rows \ Matching(rows, u)) \cup
    {[r EXCEPT !.access_token = at, !.expires_at = exp, !.enabled = TRUE] :
        r \in Matching(rows, u)}

\* .update({access_token, expires_at, updated_at}).eq(user_id).eq(provider)
StoreRefreshed(rows, u, at, exp) ==
    (rows \ Matching(rows, u)) \cup
    {[r EXCEPT !.access_token = at, !.expires_at = exp] : r \in Matching(rows, u)}

-----------------------------------------------------------------------------
(* Requests and responses *)

Response(status, body) == [status |-> status, body |-> body]

UnauthorizedResponse == Response(401, "Unauthorized")

\* Does the action need a bearer token that resolves to a user?
\* Variant A skips the check for authorize and callback; variant B never does.
NeedsUser(v, op) == IF v = "A" THEN op \notin {"authorize", "callback"} ELSE TRUE

\* A successful write by op to the record of u, which was absent, enabled or
\* disabled in rows, the table before the write.
Write(op, rows, u) ==
    [op |-> op, user |-> u,
     was |-> IF Matching(rows, u) = {} THEN "absent"
             ELSE IF EnabledRows(rows, u) # {} THEN "enabled" ELSE "disabled"]

-----------------------------------------------------------------------------
(* status *)

\* A faulty status that answers "no row" as an error.
StatusResponseThrows(v, rows, b, dbOk) ==
    IF b = NoUser THEN UnauthorizedResponse
    ELSE IF dbOk /\ EnabledRows(rows, b) # {}
    THEN Response(200, "connected")
    ELSE Response(500, "disconnected")

\* Variant A: connected: !!data && !error, always 200.
\* Variant B: PGRST116 (no single row) is not an error; any other query error
\* is answered 500 with connected: false.
StatusResponse(v, rows, b, dbOk) ==
    LET q == Single(EnabledRows(rows, b)) IN
    IF b = NoUser THEN UnauthorizedResponse
    ELSE IF v = "A"
    THEN Response(200, IF dbOk /\ q.data # NoRow /\ ~q.error
                       THEN "connected" ELSE "disconnected")
    ELSE IF ~dbOk
         THEN Response(500, "disconnected")
         ELSE Response(200, IF q.data # NoRow THEN "connected" ELSE "disconnected")

\* What a status request of user u answers when the table can be read.
Connected(v, rows, u) == StatusResponse(v, rows, u, TRUE) = Response(200, "connected")

\* status only reads.
Status(v, b, dbOk) ==
    /\ StatusResponse(v, user_integrations, b, dbOk).status \in {200, 401, 500}
    /\ UNCHANGED <<user_integrations, now, req, last>>
    /\ UNCHANGED exceptServer

-----------------------------------------------------------------------------
(* callback *)

ExchangeFailed == [ok |-> FALSE]
ExchangeResults ==
    {ExchangeFailed} \cup
    {[ok |-> TRUE, at |-> at, rt |-> rt, ttl |-> ttl] :
        at \in AccessTokens, rt \in RefreshTokens \cup {Undefined}, ttl \in 1..MaxTTL}

\* b: the user the bearer token resolves to (NoUser when there is none).
\* params: "error" (the provider redirected with ?error=), "missing" (no code
\* or no state), "ok".  oauthState (the state
\* parameter) names the user.  The result is the response and
\* the table after the request.
CallbackResult(v, b, params, oauthState, exchange, dbOk, rows, t) ==
    LET failed == IF v = "A" THEN Response(500, "html_GOOGLE_AUTH_ERROR")
                             ELSE Response(500, "json_error")
    IN
    IF NeedsUser(v, "callback") /\ b = NoUser
    THEN [resp |-> UnauthorizedResponse, rows |-> rows]
    ELSE IF params = "error" /\ v = "A"
    THEN [resp |-> Response(400, "json_error"), rows |-> rows]
    ELSE IF params # "ok"
    THEN [resp |-> Response(400, "json_error"), rows |-> rows]
    ELSE IF ~exchange.ok
    THEN [resp |-> failed, rows |-> rows]
    ELSE IF ~dbOk
    THEN [resp |-> failed, rows |-> rows]
    ELSE [resp |-> Response(200, IF v = "A" THEN "html_GOOGLE_AUTH_SUCCESS"
                                            ELSE "html_google_calendar_connected"),
          rows |-> Upsert(rows, oauthState, exchange.at, exchange.rt, t + exchange.ttl)]

Callback(v, b, params, oauthState, exchange, dbOk) ==
    LET r == CallbackResult(v, b, params, oauthState, exchange, dbOk, user_integrations, now) IN
    /\ user_integrations' = r.rows
    /\ last' = IF r.resp.status = 200 THEN Write("callback", user_integrations, oauthState)
               ELSE last
    /\ UNCHANGED <<now, req>>
    /\ UNCHANGED exceptServer

-----------------------------------------------------------------------------
(* disconnect *)

\* Variant A's disconnect action; variant B has none (Invalid action).
DisconnectResult(v, b, dbOk, rows) ==
    IF b = NoUser
    THEN [resp |-> UnauthorizedResponse, rows |-> rows]
    ELSE IF v = "B"
    THEN [resp |-> Response(400, "Invalid action"), rows |-> rows]
    ELSE IF ~dbOk
    THEN [resp |-> Response(500, "Failed to disconnect"), rows |-> rows]
    ELSE [resp |-> Response(200, "success"), rows |-> Disable(rows, b)]

Disconnect(v, b, dbOk) ==
    LET r == DisconnectResult(v, b, dbOk, user_integrations) IN
    /\ user_integrations' = r.rows
    /\ last' = IF r.resp.status = 200 THEN Write("disconnect", user_integrations, b)
               ELSE last
    /\ UNCHANGED <<now, req>>
    /\ UNCHANGED exceptServer

\* The client hook's disconnect writes the table itself, under the user id of
\* its session; it fails without a session or when the update fails.
HookDisconnectResult(b, dbOk, rows) ==
    IF b = NoUser \/ ~dbOk
    THEN [ok |-> FALSE, rows |-> rows]
    ELSE [ok |-> TRUE, rows |-> Disable(rows, b)]

HookDisconnectWrite(b, dbOk) ==
    LET r == HookDisconnectResult(b, dbOk, user_integrations) IN
    /\ user_integrations' = r.rows
    /\ last' = IF r.ok THEN Write("disconnect", user_integrations, b) ELSE last
    /\ UNCHANGED <<now, req>>
    /\ UNCHANGED exceptServer

-----------------------------------------------------------------------------
(* The entry point of a proxy function: configuration, bearer, dispatch *)

\* The deployed name of the function, the last segment of its path.
FunctionName(v) == IF v = "A" THEN "google-auth" ELSE "google-calendar"

\* The actions each variant has a handler for.
Handled(v) ==
    IF v = "A" THEN {"authorize", "callback", "status", "events", "disconnect"}
    ELSE {"get-auth-url", "callback", "status", "events", "create", "update", "delete"}

\* The action that builds the authorization URL.
AuthAction(v) == IF v = "A" THEN "authorize" ELSE "get-auth-url"

\* Two ways to address action name: as the last path segment
\* (<function>/<name>) or as a query parameter (<function>?action=<name>).
Surfaces == {"path", "query"}

\* const action = url.pathname.split('/').pop(): the query string is not part
\* of the pathname, so a request addressed by query parameter yields the
\* function's own name.
ActionOf(v, surface, name) == IF surface = "path" THEN name ELSE FunctionName(v)

\* Variant A checks the configuration inside authorize and callback only;
\* variant B checks it before anything else.
ConfigErrorResponse(v) ==
    IF v = "A" THEN Response(500, "Missing Google OAuth configuration")
               ELSE Response(500, "Server configuration error")

\* The state parameter of the authorization URL: variant A copies the state
\* query parameter of the request ('' when absent), variant B uses user.id.
UrlState(v, b, stateParam) == IF v = "A" THEN stateParam ELSE b

NoUrl == "no url"

\* What a request is answered with: the response, the table after it, the
\* state parameter of the URL it returned (NoUrl when it returned none), the
\* handler that ran ("none" when the request was turned away before the
\* dispatch, "invalid" for the fallthrough), and whether the table and the
\* provider were reached.
Answer(answer, rows, urlState, handler, table, provider) ==
    [answer |-> answer, rows |-> rows, urlState |-> urlState,
     handler |-> handler, table |-> table, provider |-> provider]

\* One request to variant v.  cfg: are the OAuth client id, secret and
\* redirect URI set?  action: the dispatched action.  b: the user the bearer
\* resolves to.  in: the inputs of the handlers (stateParam, params,
\* exchange, dbOk).  events, create, update and delete take several steps and
\* are modelled by EventsStart and its continuations.
Serve(v, cfg, action, b, in, rows, t) ==
    IF v = "B" /\ ~cfg
    THEN Answer(ConfigErrorResponse(v), rows, NoUrl, "none", FALSE, FALSE)
    ELSE IF NeedsUser(v, action) /\ b = NoUser
    THEN Answer(UnauthorizedResponse, rows, NoUrl, "none", FALSE, FALSE)
    ELSE IF action = AuthAction(v)
    THEN IF ~cfg
         THEN Answer(ConfigErrorResponse(v), rows, NoUrl, action, FALSE, FALSE)
         ELSE Answer(Response(200, "url"), rows, UrlState(v, b, in.stateParam),
                     action, FALSE, FALSE)
    ELSE IF action = "callback"
    THEN IF in.params # "ok"
         THEN Answer(Response(400, "json_error"), rows, NoUrl, action, FALSE, FALSE)
         ELSE IF ~cfg
         THEN Answer(Response(500, "html_GOOGLE_AUTH_ERROR"), rows, NoUrl,
                     action, FALSE, FALSE)
         ELSE LET r == CallbackResult(v, b, in.params, in.stateParam,
                                      in.exchange, in.dbOk, rows, t)
              IN Answer(r.resp, r.rows, NoUrl, action, in.exchange.ok, TRUE)
    ELSE IF action = "status"
    THEN Answer(StatusResponse(v, rows, b, in.dbOk), rows, NoUrl, action, TRUE, FALSE)
    ELSE IF action = "disconnect" /\ action \in Handled(v)
    THEN LET r == DisconnectResult(v, b, in.dbOk, rows)
         IN Answer(r.resp, r.rows, NoUrl, action, TRUE, FALSE)
    ELSE Answer(Response(400, "Invalid action"), rows, NoUrl, "invalid", FALSE, FALSE)

\* The state parameter of a request: a user id or '' (absent).
StateParams == Users \cup {Bystander, ""}

NoAnswer ==
    [v |-> "A", cfg |-> TRUE, surface |-> "path", name |-> "none",
     user |-> NoUser, stateParam |-> "", dbOk |-> TRUE, exchanged |-> FALSE,
     answer |-> NoResponse, urlState |-> NoUrl, handler |-> "none",
     table |-> FALSE, provider |-> FALSE]

\* A request addressed to name of variant v: the table, the answered request
\* and the last write after it.  Only a callback reads params and exchange.
Request(v, cfg, surface, name, b, stateParam, params, exchange, dbOk) ==
    LET in == [stateParam |-> stateParam, params |-> params,
               exchange |-> exchange, dbOk |-> dbOk]
        r == Serve(v, cfg, ActionOf(v, surface, name), b, in, user_integrations, now)
    IN
    [rows |-> r.rows,
     resp |-> [v |-> v, cfg |-> cfg, surface |-> surface, name |-> name,
               user |-> b, stateParam |-> stateParam, dbOk |-> dbOk,
               exchanged |-> (params = "ok" /\ exchange.ok),
               answer |-> r.answer, urlState |-> r.urlState,
               handler |-> r.handler, table |-> r.table, provider |-> r.provider],
     last |-> IF r.answer.status = 200 /\ r.handler \in {"callback", "disconnect"}
              THEN Write(r.handler, user_integrations,
                         IF r.handler = "callback" THEN stateParam ELSE b)
              ELSE last]

\* GET <function>/authorize?state=... and GET <function>?action=get-auth-url
AuthUrlRequest(v, cfg, surface, b, stateParam) ==
    LET a == Request(v, cfg, surface, AuthAction(v), b, stateParam, "ok",
                     ExchangeFailed, TRUE)
    IN
    /\ user_integrations' = a.rows /\ resp' = a.resp /\ last' = a.last
    /\ UNCHANGED <<now, req>>
    /\ UNCHANGED exceptApi

\* The provider's redirect to callback?code=...&state=...
CallbackRequest(v, cfg, surface, b, params, oauthState, exchange, dbOk) ==
    LET a == Request(v, cfg, surface, "callback", b, oauthState, params,
                     exchange, dbOk)
    IN
    /\ user_integrations' = a.rows /\ resp' = a.resp /\ last' = a.last
    /\ UNCHANGED <<now, req>>
    /\ UNCHANGED exceptApi

StatusRequest(v, cfg, surface, b, dbOk) ==
    LET a == Request(v, cfg, surface, "status", b, "", "ok", ExchangeFailed, dbOk)
    IN
    /\ user_integrations' = a.rows /\ resp' = a.resp /\ last' = a.last
    /\ UNCHANGED <<now, req>>
    /\ UNCHANGED exceptApi

DisconnectRequest(v, cfg, surface, b, dbOk) ==
    LET a == Request(v, cfg, surface, "disconnect", b, "", "ok", ExchangeFailed, dbOk)
    IN
    /\ user_integrations' = a.rows /\ resp' = a.resp /\ last' = a.last
    /\ UNCHANGED <<now, req>>
    /\ UNCHANGED exceptApi

-----------------------------------------------------------------------------
(* events: read the integration, refresh when expired, fetch the calendar *)

\* Variant A: now >= expiresAt.  Variant B: Date.now() > expiresAt.
Expired(v, t, exp) == IF v = "A" THEN t >= exp ELSE t > exp

TokenCall(rt) == [to |-> "token", token |-> rt]
CalendarCall(at) == [to |-> "calendar", token |-> at]

\* Variant A answers 400 "Google Calendar not connected"; in variant B
\* getAccessToken throws and the catch of events answers 500.
NotConnectedResponse(v) ==
    IF v = "A" THEN Response(400, "Google Calendar not connected")
               ELSE Response(500, "Failed to fetch events")

\* The first part of events, up to its first await on a provider.  The request
\* is done when it is answered at once, and in flight otherwise.
\*   found: an enabled record was read;  past: its expiry was before the clock;
\*   calls: the provider calls made so far, in order.
EventsRead(v, b, rows, t) ==
    LET q == Single(EnabledRows(rows, b))
        start == [Idle EXCEPT !.variant = v, !.user = b]
    IN
    IF b = NoUser
    THEN [start EXCEPT !.pc = "done", !.resp = UnauthorizedResponse]
    ELSE IF q.error \/ q.data = NoRow
    THEN [start EXCEPT !.pc = "done", !.resp = NotConnectedResponse(v)]
    ELSE LET integration == q.data
             refresh == Expired(v, t, integration.expires_at)
                            /\ integration.refresh_token # Null
         IN [start EXCEPT
                !.pc = IF refresh THEN "refresh" ELSE "fetch",
                !.found = TRUE,
                !.accessToken = integration.access_token,
                !.past = integration.expires_at < t,
                !.oldExpiry = integration.expires_at,
                !.calls = IF refresh THEN <<TokenCall(integration.refresh_token)>>
                                     ELSE <<CalendarCall(integration.access_token)>>]

EventsStart(v, b) ==
    /\ req.pc \in {"idle", "done"}
    /\ req' = EventsRead(v, b, user_integrations, now)
    /\ UNCHANGED <<user_integrations, now, last>>
    /\ UNCHANGED exceptServer

RefreshResults ==
    {[ok |-> FALSE]} \cup
    {[ok |-> TRUE, at |-> at, ttl |-> ttl] : at \in AccessTokens, ttl \in 1..MaxTTL}

\* The token endpoint answers the refresh.  A failure is thrown and the
\* request is answered 500 without a calendar fetch.
RefreshAnswer(r, refreshed, t) ==
    IF refreshed.ok
    THEN [r EXCEPT !.pc = "update", !.accessToken = refreshed.at,
                   !.refreshed = refreshed.at, !.newExpiry = t + refreshed.ttl]
    ELSE [r EXCEPT !.pc = "done", !.resp = Response(500, "Failed to fetch events")]

RefreshResponse(refreshed) ==
    /\ req.pc = "refresh"
    /\ req' = RefreshAnswer(req, refreshed, now)
    /\ UNCHANGED <<user_integrations, now, last>>
    /\ UNCHANGED exceptServer

\* The update of the refreshed token reaches the table; its error is not
\* read.  The calendar fetch follows with the refreshed token.
RefreshStored(dbOk) ==
    /\ req.pc = "update"
    /\ user_integrations' =
          IF dbOk
          THEN StoreRefreshed(user_integrations, req.user, req.accessToken, req.newExpiry)
          ELSE user_integrations
    /\ last' = IF dbOk /\ Matching(user_integrations, req.user) # {}
               THEN Write("refresh", user_integrations, req.user) ELSE last
    /\ req' = [req EXCEPT !.pc = "fetch",
                          !.calls = Append(@, CalendarCall(req.accessToken))]
    /\ UNCHANGED now
    /\ UNCHANGED exceptServer

\* The provider answers the calendar fetch.  Variant A throws on a provider
\* error and answers 500; variant B passes the provider's status through.
FetchAnswer(r, ok, s) ==
    [r EXCEPT !.pc = "done",
              !.resp = IF ok THEN Response(200, "items")
                       ELSE Response(IF r.variant = "A" THEN 500 ELSE s,
                                     "Failed to fetch events")]

FetchResponse(ok, s) ==
    /\ req.pc = "fetch"
    /\ req' = FetchAnswer(req, ok, s)
    /\ UNCHANGED <<user_integrations, now, last>>
    /\ UNCHANGED exceptServer

Tick ==
    /\ now < MaxNow
    /\ now' = now + 1
    /\ UNCHANGED <<user_integrations, req, last>>
    /\ UNCHANGED exceptServer

-----------------------------------------------------------------------------
(* The client hook useGoogleCalendar and the popup flow of connect() *)

MaxAttempts == 2

OwnOrigin == "app"          \* window.location.origin
OtherOrigin == "elsewhere"
Origins == {OwnOrigin, OtherOrigin}
ConnectedMessage == "google_calendar_connected"
MessageData == {ConnectedMessage, "GOOGLE_AUTH_SUCCESS"}

NotFoundError == "Google Calendar Edge Function not found"
CheckFailedError == "Connection check failed"
ConnectFailedError == "Connection failed"
PopupBlockedError ==
    "Connection failed: API request failed: Popup window was blocked. Please allow popups for this site."

InitialState == [isConnected |-> FALSE, events |-> <<>>, loading |-> FALSE, error |-> Null]

\* setState(prev => ({...prev, loading: true, error: null}))
Busy(s) == [s EXCEPT !.loading = TRUE, !.error = Null]

\* The answers a checkConnection() can get: no session, or the status of the
\* function's response (404, another failure, or 200 with connected true/false).
CheckOutcomes == {"no session", "404", "error", "connected", "disconnected"}

\* A faulty checkConnection() that sets no error when it fails.
checkConnectionQuiet(s, outcome) ==
    [state |-> [s EXCEPT !.isConnected = (outcome = "connected"), !.loading = FALSE],
     result |-> (outcome = "connected"), rejected |-> FALSE]

\* A faulty checkConnection() whose catch throws again.
checkConnectionRethrows(s, outcome) ==
    [state |-> [s EXCEPT !.isConnected = (outcome = "connected"), !.loading = FALSE,
                         !.error = IF outcome = "404" THEN NotFoundError
                                   ELSE IF outcome = "error" THEN CheckFailedError
                                   ELSE @],
     result |-> (outcome = "connected"),
     rejected |-> (outcome \in {"404", "error"})]

\* checkConnection() after its awaits: the state it sets, the value it
\* resolves to and whether it rejects instead (every throw is caught by its
\* outer catch, which returns false).  Nothing is set between getSession()
\* and the fetch.
checkConnection(s, outcome) ==
    CASE outcome = "no session" ->
           [state |-> [s EXCEPT !.isConnected = FALSE, !.loading = FALSE],
            result |-> FALSE, rejected |-> FALSE]
      [] outcome = "404" ->
           [state |-> [s EXCEPT !.isConnected = FALSE, !.loading = FALSE,
                                !.error = NotFoundError],
            result |-> FALSE, rejected |-> FALSE]
      [] outcome = "error" ->
           [state |-> [s EXCEPT !.isConnected = FALSE, !.loading = FALSE,
                                !.error = CheckFailedError],
            result |-> FALSE, rejected |-> FALSE]
      [] OTHER ->
           [state |-> [s EXCEPT !.isConnected = (outcome = "connected"),
                                !.loading = FALSE],
            result |-> (outcome = "connected"), rejected |-> FALSE]

\* A checkConnection() call that awaits its answer: who awaits it (the message
\* listener or the poll of attempt n, or the dialog's effect number n).
Task(by, n) == [by |-> by, n |-> n]

NewAttempt(via) ==
    [via |-> via, pc |-> "pending", popup |-> 0, listener |-> FALSE,
     interval |-> FALSE, timeout |-> FALSE, checks |-> 0, toasts |-> 0]

\* The Connect button of the dialog is rendered for localConnectionStatus =
\* false and disabled while localLoading.
ConnectButtonEnabled(d) ==
    d.isSettingsOpen /\ ~d.localLoading /\ ~d.localConnectionStatus

\* connect() up to its first await, called on the hook ("hook") or by
\* handleConnect of the dialog ("dialog").  The hook has no guard of its own.
Connect(via) ==
    /\ Len(attempts) < MaxAttempts
    /\ via = "dialog" => ConnectButtonEnabled(dialog)
    /\ dialog' = IF via = "dialog"
                 THEN [dialog EXCEPT !.localLoading = TRUE, !.localError = Null]
                 ELSE dialog
    /\ state' = Busy(state)
    /\ attempts' = Append(attempts, NewAttempt(via))
    /\ UNCHANGED <<popups, tasks, ignored>>
    /\ UNCHANGED exceptHook

\* window.open(url, 'Connect Google Calendar', ...): a window of that name
\* that is still open is reused, otherwise a new one is opened.
OpenPopup(ws) ==
    IF Len(ws) > 0 /\ ws[Len(ws)] = "open" THEN ws ELSE Append(ws, "open")

ConnectOutcomes == {"no session", "404", "error", "blocked", "url"}

\* A faulty catch that reports every failure alike.
ConnectErrorGeneric(outcome) == ConnectFailedError

\* The error connect() sets when it fails: the 404 text, or 'Connection
\* failed: ' followed by the message of what was thrown.
ConnectError(outcome) ==
    IF outcome = "404" THEN NotFoundError
    ELSE IF outcome = "blocked" THEN PopupBlockedError
    ELSE ConnectFailedError

\* connect() after its awaits.  With a URL and a popup it registers the
\* message listener, the poll and the timeout and resolves to true; otherwise
\* it sets loading=false and an error.  handleConnect then arms its 2 s timer.
ConnectResolve(i, outcome) ==
    /\ i \in 1..Len(attempts)
    /\ attempts[i].pc = "pending"
    /\ IF outcome = "url"
       THEN /\ popups' = OpenPopup(popups)
            /\ attempts' = [attempts EXCEPT ![i] =
                  [@ EXCEPT !.pc = "watching", !.popup = Len(OpenPopup(popups)),
                            !.listener = TRUE, !.interval = TRUE, !.timeout = TRUE]]
            /\ state' = state
       ELSE /\ popups' = popups
            /\ attempts' = [attempts EXCEPT ![i].pc = "failed"]
            /\ state' = [state EXCEPT
                  !.loading = FALSE,
                  !.error = ConnectError(outcome)]
    /\ dialog' = IF attempts[i].via = "dialog"
                 THEN [dialog EXCEPT !.recheck = @ + 1] ELSE dialog
    /\ UNCHANGED <<tasks, ignored>>
    /\ UNCHANGED exceptHook

\* A faulty listener without the origin check.
OriginAlwaysAllowed(origin) == TRUE

\* if (event.origin !== window.location.origin) return;
OriginAllowed(origin) == origin = OwnOrigin

\* if (event.data === 'google_calendar_connected')
IsSuccessMessage(data) == data = ConnectedMessage

Listening == {i \in 1..Len(attempts) : attempts[i].listener}

\* A message event on the window, dispatched to every registered listener.  A
\* listener returns at once on a foreign origin.  On the success message of its
\* own origin it removes itself, closes its popup and calls checkConnection();
\* it does not clear the poll.
MessageEvent(origin, data) ==
    /\ ignored' = ignored \cup
          (IF Listening = {} THEN {}
           ELSE IF ~OriginAllowed(origin) THEN {"origin"}
           ELSE IF ~IsSuccessMessage(data) THEN {"data"} ELSE {})
    /\ IF OriginAllowed(origin) /\ IsSuccessMessage(data) /\ Listening # {}
       THEN /\ attempts' = [i \in 1..Len(attempts) |->
                  IF i \in Listening
                  THEN [attempts[i] EXCEPT !.listener = FALSE, !.checks = @ + 1]
                  ELSE attempts[i]]
            /\ popups' = [w \in 1..Len(popups) |->
                  IF \E i \in Listening : attempts[i].popup = w
                  THEN "closed" ELSE popups[w]]
            /\ tasks' = tasks \cup {Task("message", i) : i \in Listening}
            /\ state' = Busy(state)
       ELSE UNCHANGED <<attempts, popups, tasks, state>>
    /\ UNCHANGED dialog
    /\ UNCHANGED exceptHook

\* One tick of checkStatusInterval: nothing while the popup is open; once it is
\* closed the tick clears the interval, removes the listener and calls
\* checkConnection().
PollTick(i) ==
    /\ i \in 1..Len(attempts)
    /\ attempts[i].interval
    /\ IF popups[attempts[i].popup] = "closed"
       THEN /\ attempts' = [attempts EXCEPT ![i] =
                  [@ EXCEPT !.interval = FALSE, !.listener = FALSE, !.checks = @ + 1]]
            /\ tasks' = tasks \cup {Task("poll", i)}
            /\ state' = Busy(state)
       ELSE UNCHANGED <<attempts, tasks, state>>
    /\ UNCHANGED <<popups, dialog, ignored>>
    /\ UNCHANGED exceptHook

\* The 2-minute timeout of an attempt; nothing cancels it.
Timeout(i) ==
    /\ i \in 1..Len(attempts)
    /\ attempts[i].timeout
    /\ attempts' = [attempts EXCEPT ![i] =
          [@ EXCEPT !.timeout = FALSE, !.interval = FALSE, !.listener = FALSE]]
    /\ popups' = [popups EXCEPT ![attempts[i].popup] = "closed"]
    /\ state' = [state EXCEPT !.loading = FALSE]
    /\ UNCHANGED <<tasks, dialog, ignored>>
    /\ UNCHANGED exceptHook

\* The user, or the callback page, closes the popup.
PopupCloses(w) ==
    /\ w \in 1..Len(popups)
    /\ popups[w] = "open"
    /\ popups' = [popups EXCEPT ![w] = "closed"]
    /\ UNCHANGED <<state, attempts, tasks, dialog, ignored>>
    /\ UNCHANGED exceptHook

\* The text the dialog's catch branches put before the message of the error.
CheckStatusError == "Failed to check connection status"

\* A checkConnection() gets its answer and the code that awaited it goes on:
\* the listener toasts on success; the poll sets loading=false and toasts; the
\* dialog's effect, unless it was cleaned up, stores the result;
\* handleCheckConnection stores the result and increments connectionAttempt,
\* which runs the effect again.  Were the call to reject, the listener and
\* the poll would stop there and the dialog's catch would set localError.
CheckConnectionDone(t, outcome) ==
    /\ t \in tasks
    /\ LET r == checkConnection(state, outcome)
           again == t.by = "refresh" /\ ~r.rejected
       IN
       /\ tasks' = (tasks \ {t}) \cup
                   (IF again THEN {Task("dialog", dialog.connectionAttempt + 1)} ELSE {})
       /\ state' = IF t.by = "poll" /\ ~r.rejected
                   THEN [r.state EXCEPT !.loading = FALSE]
                   ELSE IF again THEN Busy(r.state)
                   ELSE r.state
       /\ attempts' = IF t.by \in {"message", "poll"} /\ r.result /\ ~r.rejected
                      THEN [attempts EXCEPT ![t.n].toasts = @ + 1]
                      ELSE attempts
       /\ dialog' =
             IF t.by = "dialog" /\ t.n = dialog.connectionAttempt
             THEN [dialog EXCEPT
                      !.localConnectionStatus = r.result /\ ~r.rejected,
                      !.localLoading = FALSE,
                      !.localError = IF r.rejected THEN CheckStatusError ELSE @]
             ELSE IF t.by = "refresh"
             THEN IF r.rejected
                  THEN [dialog EXCEPT !.localLoading = FALSE,
                                      !.localError = CheckStatusError]
                  ELSE [dialog EXCEPT !.localConnectionStatus = r.result,
                                      !.localLoading = TRUE,
                                      !.connectionAttempt = @ + 1]
             ELSE dialog
    /\ UNCHANGED <<popups, ignored>>
    /\ UNCHANGED exceptHook

InitialDialog ==
    [isSettingsOpen |-> FALSE, localLoading |-> FALSE,
     localConnectionStatus |-> FALSE, connectionAttempt |-> 0, recheck |-> 0,
     localError |-> Null]

\* The effect of the dialog, which runs when the dialog opens and when
\* connectionAttempt changes: localLoading=true and checkConnection(true).
OpenDialog ==
    /\ ~dialog.isSettingsOpen
    /\ dialog' = [dialog EXCEPT !.isSettingsOpen = TRUE, !.localLoading = TRUE,
                                !.localError = Null]
    /\ tasks' = tasks \cup {Task("dialog", dialog.connectionAttempt)}
    /\ state' = Busy(state)
    /\ UNCHANGED <<attempts, popups, ignored>>
    /\ UNCHANGED exceptHook

\* The 2 s timer of handleConnect increments connectionAttempt; the effect
\* runs again.
DialogRecheck ==
    /\ dialog.recheck > 0
    /\ dialog' = [dialog EXCEPT !.recheck = @ - 1, !.connectionAttempt = @ + 1,
                                !.localLoading = TRUE, !.localError = Null]
    /\ tasks' = tasks \cup {Task("dialog", dialog.connectionAttempt + 1)}
    /\ state' = Busy(state)
    /\ UNCHANGED <<attempts, popups, ignored>>
    /\ UNCHANGED exceptHook

\* The Refresh Status button (disabled while localLoading) runs
\* handleCheckConnection up to its await: checkConnection(), not silent.
\* The model follows one such request at a time and stops counting
\* connectionAttempt at MaxAttempts.
HandleCheckConnection ==
    /\ dialog.isSettingsOpen /\ ~dialog.localLoading
    /\ dialog.connectionAttempt < MaxAttempts
    /\ \A t \in tasks : t.by # "refresh"
    /\ dialog' = [dialog EXCEPT !.localLoading = TRUE, !.localError = Null]
    /\ tasks' = tasks \cup {Task("refresh", dialog.connectionAttempt)}
    /\ state' = Busy(state)
    /\ UNCHANGED <<attempts, popups, ignored>>
    /\ UNCHANGED exceptHook

-----------------------------------------------------------------------------
(* The calendar page: formatting and merging the two sources *)

MaxLocal == 2
MaxProvider == 2

EventIds == {"e1", "e2"}

\* A local event (CalendarEvent) and a provider event (GoogleCalendarEvent),
\* with the fields the formatting reads; timed: start.dateTime is present.
LocalEvents == [id : EventIds, title : {"local"}, allDay : BOOLEAN]
ProviderEvents == [id : EventIds, summary : {"provider"}, timed : BOOLEAN]

SeqsUpTo(S, n) == UNION {[1..k -> S] : k \in 0..n}

\* The start and the end of a provider event: a timed event carries
\* dateTime and no date, an all-day event date and no dateTime.
StartOf(e) ==
    IF e.timed THEN [dateTime |-> "start.dateTime", date |-> Undefined]
               ELSE [dateTime |-> Undefined, date |-> "start.date"]
EndOf(e) ==
    IF e.timed THEN [dateTime |-> "end.dateTime", date |-> Undefined]
               ELSE [dateTime |-> Undefined, date |-> "end.date"]

\* a || b of two optional strings
Or(a, b) == IF a # Undefined THEN a ELSE b

\* useCalendarEvents.getFormattedEvents: the event's own start and end, and
\* no source among the extendedProps
getCrmEvents(evs) ==
    [k \in 1..Len(evs) |->
        [id |-> evs[k].id, title |-> evs[k].title,
         start |-> "event.start", end |-> "event.end",
         allDay |-> evs[k].allDay, source |-> Undefined]]

\* A faulty provider formatting that reads start.date and end.date only.
getGoogleEventsDated(evs) ==
    [k \in 1..Len(evs) |->
        [id |-> evs[k].id, title |-> evs[k].summary,
         start |-> StartOf(evs[k]).date, end |-> EndOf(evs[k]).date,
         allDay |-> ~evs[k].timed, source |-> "google"]]

\* useGoogleCalendar.getFormattedEvents: start = start.dateTime || start.date,
\* end = end.dateTime || end.date, allDay = !event.start.dateTime
getGoogleEvents(evs) ==
    [k \in 1..Len(evs) |->
        [id |-> evs[k].id, title |-> evs[k].summary,
         start |-> Or(StartOf(evs[k]).dateTime, StartOf(evs[k]).date),
         end |-> Or(EndOf(evs[k]).dateTime, EndOf(evs[k]).date),
         allDay |-> StartOf(evs[k]).dateTime = Undefined,
         source |-> "google"]]

RECURSIVE WithoutIds(_, _)
WithoutIds(evs, ids) ==
    IF evs = <<>> THEN <<>>
    ELSE IF Head(evs).id \in ids THEN WithoutIds(Tail(evs), ids)
    ELSE <<Head(evs)>> \o WithoutIds(Tail(evs), ids)

\* A faulty merge that drops a provider event whose id a local event has.
getAllEventsDeduplicated(crm, s) ==
    getCrmEvents(crm) \o
    (IF s.isConnected
     THEN WithoutIds(getGoogleEvents(s.events), {crm[k].id : k \in 1..Len(crm)})
     ELSE <<>>)

\* [...getCrmEvents(), ...(isGoogleConnected ? getGoogleEvents() : [])]
getAllEvents(crm, s) ==
    getCrmEvents(crm) \o (IF s.isConnected THEN getGoogleEvents(s.events) ELSE <<>>)

Unrendered == <<[id |-> "none"]>>

\* The page's own instance of the provider hook (its state is not shared
\* with the instance of the integration dialog) and its two flags:
\* hasCheckedConnection, and whether the effect that fetches the provider's
\* events has run since isConnected became true; and integrationError, which
\* the catch around the page's checkConnection sets.
InitialPage ==
    [hook |-> InitialState, hasCheckedConnection |-> FALSE, fetched |-> FALSE,
     integrationError |-> Null]

\* The page renders: formattedEvents = getAllEvents()
Render ==
    /\ formattedEvents' = getAllEvents(crmEvents, page.hook)
    /\ UNCHANGED <<crmEvents, page, exceptPage>>

-----------------------------------------------------------------------------
(* The event operations of the provider hook and of the local hook *)

\* How many operations may be in flight at once.
MaxOps == 1

ProviderOps == {"fetchEvents", "createEvent", "updateEvent", "deleteEvent", "disconnect"}
LocalOps == {"addEvent", "updateEvent", "deleteEvent"}

Op(hook, op) == [hook |-> hook, op |-> op]

\* The parts of an answer that an operation does not read.
NoId == "e1"
NoProviderEvent == [id |-> NoId, summary |-> "provider", timed |-> TRUE]
NoLocalEvent == [id |-> NoId, title |-> "local", allDay |-> TRUE]

\* How the remote request of an operation ends.  "no session" (the provider
\* hook throws before it sends the request) and "failed" are failures.
OpOutcomes == {"no session", "failed", "ok"}

\* A faulty map that replaces only the first entry of that id.
MapFirstById(evs, id, ev) ==
    [k \in 1..Len(evs) |->
        IF evs[k].id = id /\ \A j \in 1..(k - 1) : evs[j].id # id THEN ev ELSE evs[k]]

\* events.map(e => e.id === id ? event : e)
MapById(evs, id, ev) == [k \in 1..Len(evs) |-> IF evs[k].id = id THEN ev ELSE evs[k]]

\* events.filter(e => e.id !== id)
FilterById(evs, id) == WithoutIds(evs, {id})

\* A faulty catch that also empties the list.
FailedClearing(s, message, value) ==
    [state |-> [s EXCEPT !.loading = FALSE, !.error = message, !.events = <<>>],
     value |-> value]

\* catch: setState(prev => ({...prev, loading: false, error: message})) and
\* return the failure value.
Failed(s, message, value) ==
    [state |-> [s EXCEPT !.loading = FALSE, !.error = message], value |-> value]

\* The provider hook after the request of op ended, and what op returns.
\* id: the event addressed; ev: the event in the function's answer; evs: the
\* items of the function's answer.
ProviderResult(s, op, outcome, id, ev, evs) ==
    IF op = "fetchEvents"
    THEN IF outcome = "ok"
         THEN [state |-> [s EXCEPT !.events = evs, !.loading = FALSE], value |-> "events"]
         ELSE Failed(s, "Failed to fetch events", "[]")
    ELSE IF op = "createEvent"
    THEN IF outcome = "ok"
         THEN [state |-> [s EXCEPT !.events = Append(@, ev), !.loading = FALSE],
               value |-> "event"]
         ELSE Failed(s, "Failed to create event", "null")
    ELSE IF op = "updateEvent"
    THEN IF outcome = "ok"
         THEN [state |-> [s EXCEPT !.events = MapById(@, id, ev), !.loading = FALSE],
               value |-> "event"]
         ELSE Failed(s, "Failed to update event", "null")
    ELSE IF op = "deleteEvent"
    THEN IF outcome = "ok"
         THEN [state |-> [s EXCEPT !.events = FilterById(@, id), !.loading = FALSE],
               value |-> "true"]
         ELSE Failed(s, "Failed to delete event", "false")
    ELSE IF outcome = "ok"
         THEN [state |-> [s EXCEPT !.isConnected = FALSE, !.events = <<>>,
                                   !.loading = FALSE],
               value |-> "true"]
         ELSE Failed(s, "Disconnection failed", "false")

\* The local hook's list after the request of op ended, and what op returns.
LocalResult(evs, op, ok, id, ev) ==
    IF op = "addEvent"
    THEN IF ok THEN [events |-> Append(evs, ev), value |-> "event"]
               ELSE [events |-> evs, value |-> "null"]
    ELSE IF op = "updateEvent"
    THEN IF ok THEN [events |-> MapById(evs, id, ev), value |-> "event"]
               ELSE [events |-> evs, value |-> "null"]
    ELSE IF ok THEN [events |-> FilterById(evs, id), value |-> "true"]
               ELSE [events |-> evs, value |-> "false"]

\* What an operation returns at its guard.
Refusal(op) == [op |-> op, value |-> IF op = "fetchEvents" THEN "[]"
                                     ELSE IF op = "deleteEvent" THEN "false"
                                     ELSE "null"]

\* A faulty guard that is read after setState({loading: true, error: null}).
ProviderStartBusy(s, op) ==
    [state |-> Busy(s), request |-> op = "disconnect" \/ s.isConnected]

\* An operation of the provider hook up to its first await: the event
\* operations return at once when the hook is not connected; otherwise, and
\* for disconnect, setState({loading: true, error: null}) and the session
\* lookup and the request follow.
ProviderStart(s, op) ==
    IF op # "disconnect" /\ ~s.isConnected
    THEN [state |-> s, request |-> FALSE]
    ELSE [state |-> Busy(s), request |-> TRUE]

\* A call of an operation of the provider hook, up to its first await.
ProviderCall(op) ==
    LET r == ProviderStart(state, op) IN
    /\ r.request => Cardinality(ops) < MaxOps
    /\ state' = r.state
    /\ ops' = IF r.request THEN ops \cup {Op("provider", op)} ELSE ops
    /\ refused' = IF r.request THEN refused ELSE refused \cup {Refusal(op)}
    /\ UNCHANGED <<attempts, popups, tasks, dialog, ignored>>
    /\ UNCHANGED <<serverVars, pageVars, apiVars, storeVars>>

\* The request of o ended.  A disconnect that succeeded has disabled the
\* record of the session's user.
ProviderDone(o, outcome, id, ev, evs) ==
    LET r == ProviderResult(state, o.op, outcome, id, ev, evs)
        w == HookDisconnectResult("u1", TRUE, user_integrations)
    IN
    /\ o \in ops /\ o.hook = "provider"
    /\ o.op = "createEvent" /\ outcome = "ok" => Len(state.events) < MaxProvider
    /\ state' = r.state
    /\ ops' = ops \ {o}
    /\ IF o.op = "disconnect" /\ outcome = "ok"
       THEN /\ user_integrations' = w.rows
            /\ last' = Write("disconnect", user_integrations, "u1")
       ELSE UNCHANGED <<user_integrations, last>>
    /\ UNCHANGED <<now, req>>
    /\ UNCHANGED <<attempts, popups, tasks, dialog, ignored>>
    /\ UNCHANGED <<refused, pageVars, apiVars, storeVars>>

\* A call of an operation of the local hook: it sends its request at once.
\* The table's answer is an input of LocalDone.
LocalCall(op) ==
    /\ Cardinality(ops) < MaxOps
    /\ ops' = ops \cup {Op("local", op)}
    /\ UNCHANGED <<refused, serverVars, hookVars, pageVars, apiVars, storeVars>>

LocalDone(o, ok, id, ev) ==
    LET r == LocalResult(crmEvents, o.op, ok, id, ev) IN
    /\ o \in ops /\ o.hook = "local"
    /\ o.op = "addEvent" /\ ok => Len(crmEvents) < MaxLocal
    /\ crmEvents' = r.events
    /\ ops' = ops \ {o}
    /\ UNCHANGED <<formattedEvents, page>>
    /\ UNCHANGED <<refused, serverVars, hookVars, apiVars, storeVars>>

-----------------------------------------------------------------------------
(* The local hook useCalendarEvents on the calendar_events table *)

\* The eventData of updateEvent, a Partial<CalendarEvent>: the fields it
\* names and their values.  The event form submits the title with the flag;
\* a caller may name the flag alone.
UpdateData ==
    [fields : {{"title", "allDay"}, {"title"}, {"allDay"}},
     title : {"edited"}, allDay : BOOLEAN]

\* dbEventData = {...eventData}; if ('allDay' in eventData) {
\*   dbEventData.allDay = eventData.allDay; delete dbEventData.allDay }
dbEventData(eventData) == [eventData EXCEPT !.fields = @ \ {"allDay"}]

\* .update(data) on one row: the columns that data names
Patch(row, data) ==
    [row EXCEPT !.title = IF "title" \in data.fields THEN data.title ELSE @,
                !.allDay = IF "allDay" \in data.fields THEN data.allDay ELSE @]

\* .update(data).eq('id', id): nothing is written for a payload that names
\* no column
UpdateRows(rows, id, data) ==
    [k \in 1..Len(rows) |->
        IF rows[k].id = id /\ data.fields # {} THEN Patch(rows[k], data) ELSE rows[k]]

RowIds(rows) == {rows[k].id : k \in 1..Len(rows)}

\* .select().single() on the rows of that id
RowOf(rows, id) == rows[CHOOSE k \in 1..Len(rows) : rows[k].id = id]

\* fetchEvents of the local hook, which runs on mount: the cache becomes the
\* table's rows (their order stands for the order by start).
StoreFetch(ok) ==
    /\ crmEvents' = IF ok THEN calendar_events ELSE crmEvents
    /\ UNCHANGED <<calendar_events, formattedEvents, page>>
    /\ UNCHANGED <<serverVars, hookVars, opsVars, apiVars>>

\* addEvent: insert, then append the returned row to the cache.  The table
\* gives the row its id.
StoreAddEvent(ev, ok) ==
    /\ Len(calendar_events) < MaxLocal
    /\ ev.id \notin RowIds(calendar_events)
    /\ calendar_events' = IF ok THEN Append(calendar_events, ev) ELSE calendar_events
    /\ crmEvents' = LocalResult(crmEvents, "addEvent", ok, ev.id, ev).events
    /\ UNCHANGED <<formattedEvents, page>>
    /\ UNCHANGED <<serverVars, hookVars, opsVars, apiVars>>

\* updateEvent: the update of the converted payload, then .select().single(),
\* which is an error when no row has the id; the returned row replaces the
\* cached event.  ok: the request reaches the table and is answered.
StoreUpdateEvent(id, eventData, ok) ==
    LET rows == IF ok THEN UpdateRows(calendar_events, id, dbEventData(eventData))
                ELSE calendar_events
        answered == ok /\ id \in RowIds(rows)
        returned == IF answered THEN RowOf(rows, id) ELSE NoLocalEvent
    IN
    /\ calendar_events' = rows
    /\ crmEvents' = LocalResult(crmEvents, "updateEvent", answered, id, returned).events
    /\ UNCHANGED <<formattedEvents, page>>
    /\ UNCHANGED <<serverVars, hookVars, opsVars, apiVars>>

\* deleteEvent: delete the rows of the id, then filter the cache.
StoreDeleteEvent(id, ok) ==
    /\ calendar_events' = IF ok THEN FilterById(calendar_events, id) ELSE calendar_events
    /\ crmEvents' = LocalResult(crmEvents, "deleteEvent", ok, id, NoLocalEvent).events
    /\ UNCHANGED <<formattedEvents, page>>
    /\ UNCHANGED <<serverVars, hookVars, opsVars, apiVars>>

-----------------------------------------------------------------------------
(* The calendar page with the integration dialog inside it *)

\* The scenario: the local store holds one event, the provider two.
LocalStore == <<[id |-> "e1", title |-> "local", allDay |-> FALSE]>>
ProviderCalendar ==
    <<[id |-> "e1", summary |-> "provider", timed |-> TRUE],
      [id |-> "e2", summary |-> "provider", timed |-> FALSE]>>

\* What a status request of the signed-in user is answered while the
\* function is reachable.
StatusOutcome ==
    IF EnabledRows(user_integrations, "u1") # {} THEN "connected" ELSE "disconnected"

\* The page's effect on mount: checkConnection(true) on the page's own hook
\* instance, once (its dependency checkConnection never changes).  Its
\* catch keeps the message of an error that names the missing function.
PageCheckConnection(outcome) ==
    LET r == checkConnection(Busy(page.hook), outcome) IN
    /\ ~page.hasCheckedConnection
    /\ page' = [page EXCEPT
          !.hook = r.state,
          !.hasCheckedConnection = TRUE,
          !.integrationError = IF r.rejected /\ outcome = "404"
                               THEN NotFoundError ELSE Null]
    /\ UNCHANGED <<crmEvents, formattedEvents>>
    /\ UNCHANGED exceptPage

\* The page's effect on [isGoogleConnected, fetchGoogleEvents]: when the
\* page's own instance is connected it fetches the provider's events.
PageFetchEvents ==
    /\ page.hook.isConnected /\ ~page.fetched
    /\ page' = [page EXCEPT
          !.hook = ProviderResult(Busy(page.hook), "fetchEvents", "ok", NoId,
                                  NoProviderEvent, ProviderCalendar).state,
          !.fetched = TRUE]
    /\ UNCHANGED <<crmEvents, formattedEvents>>
    /\ UNCHANGED exceptPage

\* The provider redirects the open popup to the callback, which succeeds.
ProviderRedirect(v, exchange) ==
    /\ \E w \in 1..Len(popups) : popups[w] = "open"
    /\ exchange.ok
    /\ Callback(v, IF v = "A" THEN NoUser ELSE "u1", "ok", "u1", exchange, TRUE)

-----------------------------------------------------------------------------
(* Specifications *)

Bearers == Users \cup {NoUser}

\* The table holds the record of the bystander, who connected before the first
\* modelled request; the client is as its components construct it.
Init ==
    /\ user_integrations = {Row(Bystander, "at1", "rt1", 1, TRUE)}
    /\ now = 0
    /\ req = Idle
    /\ last = NoWrite
    /\ state = InitialState
    /\ attempts = <<>>
    /\ popups = <<>>
    /\ tasks = {}
    /\ dialog = InitialDialog
    /\ ignored = {}
    /\ crmEvents = <<>>
    /\ formattedEvents = Unrendered
    /\ page = InitialPage
    /\ ops = {}
    /\ resp = NoAnswer
    /\ refused = {}
    /\ calendar_events = <<>>

ServerNext ==
    \/ \E v \in Variants, b \in Bearers, dbOk \in BOOLEAN : Status(v, b, dbOk)
    \/ \E v \in Variants, oauthState \in Users, params \in {"error", "missing", "ok"} :
          \* callback reads of the bearer only whether it resolves to a user
          \E b \in {NoUser, oauthState} :
          \* the exchange and the upsert happen only when the request gets there
          \E exchange \in IF params = "ok" THEN ExchangeResults ELSE {ExchangeFailed} :
          \E dbOk \in IF exchange.ok THEN BOOLEAN ELSE {TRUE} :
          Callback(v, b, params, oauthState, exchange, dbOk)
    \/ \E v \in Variants, b \in Bearers, dbOk \in BOOLEAN : Disconnect(v, b, dbOk)
    \/ \E b \in Bearers, dbOk \in BOOLEAN : HookDisconnectWrite(b, dbOk)
    \/ \E v \in Variants, b \in Bearers : EventsStart(v, b)
    \/ \E refreshed \in RefreshResults : RefreshResponse(refreshed)
    \/ \E dbOk \in BOOLEAN : RefreshStored(dbOk)
    \/ \E ok \in BOOLEAN, s \in ProviderErrors : FetchResponse(ok, s)
    \/ Tick

\* The table and the two functions, with the client at rest.
SpecServer == Init /\ [][ServerNext]_vars

HookNext ==
    \/ Connect("hook")
    \/ \E i \in 1..MaxAttempts, outcome \in ConnectOutcomes : ConnectResolve(i, outcome)
    \/ \E origin \in Origins, data \in MessageData : MessageEvent(origin, data)
    \/ \E i \in 1..MaxAttempts : PollTick(i)
    \/ \E i \in 1..MaxAttempts : Timeout(i)
    \/ \E w \in 1..MaxAttempts : PopupCloses(w)
    \/ \E t \in tasks, outcome \in CheckOutcomes : CheckConnectionDone(t, outcome)

\* The hook called by any component, with the table at rest.
SpecHook == Init /\ [][HookNext]_vars

DialogNext ==
    \/ OpenDialog
    \/ Connect("dialog")
    \/ DialogRecheck
    \/ \E i \in 1..MaxAttempts, outcome \in ConnectOutcomes : ConnectResolve(i, outcome)
    \/ \E origin \in Origins, data \in MessageData : MessageEvent(origin, data)
    \/ \E i \in 1..MaxAttempts : PollTick(i)
    \/ \E i \in 1..MaxAttempts : Timeout(i)
    \/ \E w \in 1..MaxAttempts : PopupCloses(w)
    \/ \E t \in tasks, outcome \in CheckOutcomes : CheckConnectionDone(t, outcome)

\* The hook instance of the integration dialog, which alone calls its
\* connect(), with the table at rest.
SpecDialog == Init /\ [][DialogNext]_vars

ApiNext ==
    \/ \E v \in Variants, cfg \in BOOLEAN, surface \in Surfaces, b \in Bearers,
          stateParam \in StateParams :
          AuthUrlRequest(v, cfg, surface, b, stateParam)
    \/ \E v \in Variants, cfg \in BOOLEAN, surface \in Surfaces, oauthState \in Users,
          params \in {"error", "missing", "ok"} :
          \E b \in {NoUser, oauthState} :
          \E exchange \in IF params = "ok" THEN ExchangeResults ELSE {ExchangeFailed} :
          \E dbOk \in IF exchange.ok THEN BOOLEAN ELSE {TRUE} :
          CallbackRequest(v, cfg, surface, b, params, oauthState, exchange, dbOk)
    \/ \E v \in Variants, cfg \in BOOLEAN, surface \in Surfaces, b \in Bearers,
          dbOk \in BOOLEAN :
          StatusRequest(v, cfg, surface, b, dbOk)
    \/ \E v \in Variants, cfg \in BOOLEAN, surface \in Surfaces, b \in Bearers,
          dbOk \in BOOLEAN :
          DisconnectRequest(v, cfg, surface, b, dbOk)

\* The two functions as HTTP endpoints: every request is answered at once.
SpecApi == Init /\ [][ApiNext]_vars

\* The two hooks with the provider hook connected and both lists empty.
OpsInit ==
    /\ state = [InitialState EXCEPT !.isConnected = TRUE]
    /\ ops = {}
    /\ crmEvents = <<>>
    /\ formattedEvents = Unrendered
    /\ page = InitialPage
    /\ attempts = <<>> /\ popups = <<>> /\ tasks = {}
    /\ dialog = InitialDialog /\ ignored = {}
    /\ user_integrations = {Row("u1", "at1", "rt1", 1, TRUE)}
    /\ now = 0 /\ req = Idle /\ last = NoWrite
    /\ resp = NoAnswer
    /\ refused = {}
    /\ calendar_events = <<>>

OpsNext ==
    \/ \E op \in ProviderOps : ProviderCall(op)
    \/ \E o \in ops, outcome \in OpOutcomes :
          \* each operation reads only its own part of the answer
          \E id \in IF outcome = "ok" /\ o.op \in {"updateEvent", "deleteEvent"}
                    THEN EventIds ELSE {NoId} :
          \E ev \in IF outcome = "ok" /\ o.op \in {"createEvent", "updateEvent"}
                    THEN ProviderEvents ELSE {NoProviderEvent} :
          \E evs \in IF outcome = "ok" /\ o.op = "fetchEvents"
                     THEN SeqsUpTo(ProviderEvents, MaxProvider) ELSE {<<>>} :
          ProviderDone(o, outcome, id, ev, evs)
    \/ \E op \in LocalOps : LocalCall(op)
    \/ \E o \in ops, ok \in BOOLEAN :
          \E id \in IF ok /\ o.op \in {"updateEvent", "deleteEvent"}
                    THEN EventIds ELSE {NoId} :
          \E ev \in IF ok /\ o.op \in {"addEvent", "updateEvent"}
                    THEN LocalEvents ELSE {NoLocalEvent} :
          LocalDone(o, ok, id, ev)

\* The event operations of the two hooks.
SpecOps == OpsInit /\ [][OpsNext]_vars

\* The page is mounted with one local event; nobody is connected.
PageInit ==
    /\ crmEvents = LocalStore
    /\ formattedEvents = Unrendered
    /\ page = InitialPage
    /\ state = InitialState
    /\ attempts = <<>> /\ popups = <<>> /\ tasks = {}
    /\ dialog = InitialDialog /\ ignored = {}
    /\ ops = {}
    /\ user_integrations = {}
    /\ now = 0 /\ req = Idle /\ last = NoWrite
    /\ resp = NoAnswer
    /\ refused = {}
    /\ calendar_events = LocalStore

PageNext ==
    \/ PageCheckConnection(StatusOutcome)
    \/ PageFetchEvents
    \/ Render
    \/ OpenDialog
    \/ Connect("dialog")
    \/ DialogRecheck
    \/ \E i \in 1..MaxAttempts : ConnectResolve(i, "url")
    \/ \E v \in Variants : ProviderRedirect(v, [ok |-> TRUE, at |-> "at1", rt |-> "rt1", ttl |-> 1])
    \/ \E w \in 1..MaxAttempts : PopupCloses(w)
    \/ \E i \in 1..MaxAttempts : PollTick(i)
    \/ \E t \in tasks : CheckConnectionDone(t, StatusOutcome)

\* The page and the dialog end to end, with every request answered.  The
\* effects of the page, the timers and the continuations of the awaited
\* requests are run by the event loop, so each of them is taken once it
\* stays enabled.
SpecPage ==
    /\ PageInit /\ [][PageNext]_vars
    /\ WF_vars(PageCheckConnection(StatusOutcome))
    /\ WF_vars(PageFetchEvents)
    /\ WF_vars(Render)
    /\ WF_vars(DialogRecheck)
    /\ WF_vars(\E i \in 1..MaxAttempts : PollTick(i))
    /\ WF_vars(\E t \in tasks : CheckConnectionDone(t, StatusOutcome))

CheckNext ==
    \/ \E outcome \in CheckOutcomes : PageCheckConnection(outcome)
    \/ OpenDialog
    \/ HandleCheckConnection
    \/ \E t \in tasks, outcome \in CheckOutcomes : CheckConnectionDone(t, outcome)
    \/ Render

\* The callers of checkConnection() that wrap it in try/catch: the page's
\* mount effect, the dialog's effect and the dialog's Refresh Status button.
SpecCheck == Init /\ [][CheckNext]_vars

\* The table holds one event and the page is about to mount.
StoreInit ==
    /\ calendar_events = LocalStore
    /\ crmEvents = <<>>
    /\ formattedEvents = Unrendered
    /\ page = InitialPage
    /\ state = InitialState
    /\ attempts = <<>> /\ popups = <<>> /\ tasks = {}
    /\ dialog = InitialDialog /\ ignored = {}
    /\ ops = {} /\ refused = {}
    /\ user_integrations = {}
    /\ now = 0 /\ req = Idle /\ last = NoWrite
    /\ resp = NoAnswer

StoreNext ==
    \/ \E ok \in BOOLEAN : StoreFetch(ok)
    \/ \E ev \in LocalEvents, ok \in BOOLEAN : StoreAddEvent(ev, ok)
    \/ \E id \in EventIds, eventData \in UpdateData, ok \in BOOLEAN :
          StoreUpdateEvent(id, eventData, ok)
    \/ \E id \in EventIds, ok \in BOOLEAN : StoreDeleteEvent(id, ok)
    \/ Render

\* The local hook on its table, and the page that renders its cache.
SpecStore == StoreInit /\ [][StoreNext]_vars

\* The page with any local events and any hook state it can be rendered in.
MergeInit ==
    /\ crmEvents \in SeqsUpTo(LocalEvents, MaxLocal)
    /\ page \in {[InitialPage EXCEPT !.hook.isConnected = c, !.hook.events = evs] :
                     c \in BOOLEAN, evs \in SeqsUpTo(ProviderEvents, MaxProvider)}
    /\ state = InitialState
    /\ formattedEvents = Unrendered
    /\ ops = {}
    /\ attempts = <<>> /\ popups = <<>> /\ tasks = {}
    /\ dialog = InitialDialog /\ ignored = {}
    /\ user_integrations = {Row(Bystander, "at1", "rt1", 1, TRUE)}
    /\ now = 0 /\ req = Idle /\ last = NoWrite
    /\ resp = NoAnswer
    /\ refused = {}
    /\ calendar_events = crmEvents

MergeNext == Render

SpecMerge == MergeInit /\ [][MergeNext]_vars

-----------------------------------------------------------------------------
(* Properties of the table and the proxy functions (SpecServer) *)

\* C1: after a callback whose token exchange and upsert succeeded for user U,
\* and until the next write to the table, status(U) answers connected=true on
\* both functions and exactly one record with enabled=true exists for
\* (U, "google_calendar").
C1_ConnectedAfterCallback ==
    last.op = "callback" =>
        /\ \A v \in Variants : Connected(v, user_integrations, last.user)
        /\ Cardinality({r \in user_integrations :
                           /\ r.user_id = last.user
                           /\ r.provider = Provider
                           /\ r.enabled}) = 1

\* A callback re-enabled the disabled record of a user while an events request
\* of that user, started before the disconnect, awaited its calendar fetch.
C1_Witness ==
    /\ last.op = "callback" /\ last.was = "disabled"
    /\ req.pc = "fetch" /\ req.user = last.user

\* C2: the table never holds two records, and so never two enabled records,
\* for one (user, provider): a callback for a user who has a record updates it.
C2_OneRecordPerUser ==
    \A u \in Users :
        /\ Cardinality(Matching(user_integrations, u)) <= 1
        /\ Cardinality(EnabledRows(user_integrations, u)) <= 1

\* Every user holds a record and the last write was a callback on an existing one.
C2_Witness ==
    /\ last.op = "callback" /\ last.was # "absent"
    /\ \A u \in Users : Matching(user_integrations, u) # {}

\* C3: no step removes a record; a successful disconnect (server action or
\* client hook) leaves the user's record as it was but for enabled=false; and
\* a user whose status is connected=false stays so until a successful callback
\* for that user.
C3_DisconnectKeepsRecord ==
    [][\A u \in Users :
        /\ Matching(user_integrations, u) # {} => Matching(user_integrations', u) # {}
        /\ (last'.op = "disconnect" /\ last'.user = u) =>
              Matching(user_integrations', u) =
                  {[r EXCEPT !.enabled = FALSE] : r \in Matching(user_integrations, u)}
        /\ \A v \in Variants :
              (/\ ~Connected(v, user_integrations, u)
               /\ ~(last'.op = "callback" /\ last'.user = u))
              => ~Connected(v, user_integrations', u)
      ]_vars

\* A disconnect disabled an existing record, which still holds its refresh token.
C3_Witness ==
    /\ last.op = "disconnect" /\ last.was = "enabled"
    /\ \E r \in Matching(user_integrations, last.user) :
          ~r.enabled /\ r.refresh_token # Null

\* C4 as claimed: an events request that read an expiry in the past reaches
\* its calendar fetch after exactly one refresh call, fetches with the
\* refreshed token, and the refreshed expiry is later than the one it read.
C4_RefreshBeforeFetch ==
    (req.pc = "fetch" /\ req.past) =>
        /\ Len(req.calls) = 2
        /\ req.calls[1].to = "token"
        /\ req.refreshed # Null
        /\ req.calls[2] = CalendarCall(req.refreshed)
        /\ req.newExpiry > req.oldExpiry

\* C5 as claimed: on both functions an events request of a user without an
\* enabled record is answered 400 "not connected" and calls no provider.
C5_NotConnectedIs400 ==
    (req.pc = "done" /\ req.user # NoUser /\ ~req.found) =>
        /\ req.resp = Response(400, "Google Calendar not connected")
        /\ req.calls = <<>>

\* C16: when the provider's calendar API answers the fetch of an events
\* request with a non-success status S, the function answers the caller
\* with status S, on both functions.
C16_ProviderStatusPassedThrough ==
    [][\A s \in ProviderErrors :
          FetchResponse(FALSE, s) => req'.resp.status = s]_vars

\* C23: an events request whose stored token is expired (now >= expiry,
\* the boundary included, with or without a refresh token) does not go on
\* to the calendar API with the stored token: it refreshes first or ends
\* without a calendar call.
C23_NoCallWithExpiredToken ==
    [][\A v \in Variants, b \in Users :
          (EventsStart(v, b) /\ req'.found /\ now >= req'.oldExpiry) =>
              /\ req'.pc # "fetch"
              /\ \A k \in 1..Len(req'.calls) : req'.calls[k].to # "calendar"]_vars

\* What a refresh update must leave alone in a row.
KeptByRefresh(r) == [user_id |-> r.user_id, provider |-> r.provider,
                     refresh_token |-> r.refresh_token, enabled |-> r.enabled]

\* C30: the update that stores a refreshed token changes only the access
\* token and the expiry of the record: the rows keep their number, their
\* enabled flag and their refresh token, so status answers for every user what
\* it answered before; in particular, when a disconnect of the same user got
\* in between the read and the update of an events call, the record is
\* disabled and status says connected=false once both have completed.
C30_RefreshKeepsEnabled ==
    [][\A dbOk \in BOOLEAN :
          RefreshStored(dbOk) =>
              /\ Cardinality(user_integrations') = Cardinality(user_integrations)
              /\ {KeptByRefresh(r) : r \in user_integrations'} =
                 {KeptByRefresh(r) : r \in user_integrations}
              /\ \A v \in Variants, u \in Users :
                    Connected(v, user_integrations', u) = Connected(v, user_integrations, u)
              /\ EnabledRows(user_integrations, req.user) = {} =>
                    \A v \in Variants : ~Connected(v, user_integrations', req.user)]_vars

\* An events call read the enabled record, a disconnect then disabled it, and
\* the call's refresh update was written to the disabled record: the call has
\* completed, the record is disabled and status answers connected=false.
C30_Witness ==
    /\ last = [op |-> "refresh", user |-> "u1", was |-> "disabled"]
    /\ req.pc = "done"
    /\ Matching(user_integrations, "u1") # {}
    /\ EnabledRows(user_integrations, "u1") = {}
    /\ \A v \in Variants : ~Connected(v, user_integrations, "u1")

-----------------------------------------------------------------------------
(* Properties of the functions as HTTP endpoints (SpecApi) *)

\* C11: a status request that reaches the status handler with the table
\* readable is answered 200, never an error status, whether the caller has
\* no record, a disabled record or an enabled one; connected is true exactly
\* when a record of the caller with enabled=true exists.
C11_StatusNeverErrs ==
    (resp.handler = "status" /\ resp.user # NoUser /\ resp.dbOk) =>
        /\ resp.answer.status = 200
        /\ (resp.answer.body = "connected") <=>
               (EnabledRows(user_integrations, resp.user) # {})

\* A status request by a caller whose record is disabled.
C11_Witness ==
    /\ resp.handler = "status" /\ resp.dbOk
    /\ Matching(user_integrations, resp.user) # {}
    /\ EnabledRows(user_integrations, resp.user) = {}
    /\ resp.answer = Response(200, "disconnected")

\* C12: the request for the authorization URL is answered 401 without a URL
\* when the bearer resolves to no user, and a URL it returns carries the
\* caller's user id as its state parameter, on both functions.
C12_AuthUrlCarriesCaller ==
    resp.name \in {"authorize", "get-auth-url"} =>
        /\ resp.user = NoUser =>
               (resp.answer.status = 401 /\ resp.urlState = NoUrl)
        /\ resp.urlState # NoUrl => resp.urlState = resp.user

\* C13: a callback addressed by path, with code and state U, an exchange
\* that succeeds, a working table and no bearer, is not answered 401 and
\* leaves the record of U with enabled=true.
C13_CallbackNeedsNoBearer ==
    (/\ resp.name = "callback" /\ resp.surface = "path" /\ resp.cfg
     /\ resp.user = NoUser /\ resp.exchanged /\ resp.dbOk) =>
        /\ resp.answer.status # 401
        /\ EnabledRows(user_integrations, resp.stateParam) # {}

\* C14: a request addressed as <function>?action=<name>, with a valid bearer
\* and the configuration present, runs the handler of <name>.
C14_QueryActionDispatched ==
    (/\ resp.surface = "query" /\ resp.name \in Handled(resp.v)
     /\ resp.user # NoUser /\ resp.cfg) =>
        /\ resp.handler = resp.name
        /\ resp.answer # Response(400, "Invalid action")

\* C15: with a configuration value missing, a request by an authenticated
\* caller for an action the function has (a callback with its code and
\* state) is answered 500 and reaches neither the table nor the provider.
C15_MissingConfigIsFatal ==
    (/\ ~resp.cfg /\ resp.surface = "path" /\ resp.name \in Handled(resp.v)
     /\ resp.user # NoUser
     /\ resp.name = "callback" => resp.exchanged) =>
        /\ resp.answer.status = 500
        /\ ~resp.table /\ ~resp.provider

\* C22: a callback that passes the bearer check with its code and state,
\* and whose token exchange or upsert fails, leaves the table as it was and
\* is answered with the HTML page that posts the error to the opener, on
\* both functions.
C22_FailedCallbackAnswersHtml ==
    [][\A v \in Variants, exchange \in ExchangeResults, dbOk \in BOOLEAN :
          (/\ ~exchange.ok \/ ~dbOk
           /\ CallbackRequest(v, TRUE, "path", "u1", "ok", "u1", exchange, dbOk)) =>
              /\ user_integrations' = user_integrations
              /\ resp'.answer = Response(500, "html_GOOGLE_AUTH_ERROR")]_vars

-----------------------------------------------------------------------------
(* Properties of the hook (SpecHook) and of the dialog's hook (SpecDialog) *)

\* Attempt i opened a popup and neither a watcher nor the timeout has fired.
InFlight(i) ==
    /\ attempts[i].pc = "watching"
    /\ attempts[i].checks = 0
    /\ attempts[i].timeout

\* C6: while an attempt has its listener registered, a message event of a
\* foreign origin, whatever its data, changes nothing: isConnected, loading,
\* error and events stay as they are, no checkConnection() is issued, no popup
\* is closed and every watcher stays registered.
C6_ForeignOriginIgnored ==
    [][\A data \in MessageData :
          (Listening # {} /\ MessageEvent(OtherOrigin, data)) =>
              UNCHANGED <<state, attempts, popups, tasks, dialog>>]_vars

\* A listener has returned at its origin check and its attempt is still in
\* flight with both watchers registered, the popup open and loading=true.
C6_Witness ==
    /\ "origin" \in ignored
    /\ \E i \in 1..Len(attempts) :
          /\ InFlight(i)
          /\ attempts[i].listener /\ attempts[i].interval
          /\ popups[attempts[i].popup] = "open"
    /\ state.loading /\ tasks = {}

\* C8 as claimed: the watcher of an attempt that fires first deregisters the
\* other, so an attempt issues at most one final checkConnection() and at most
\* one success toast.
C8_OneFinalCheck ==
    \A i \in 1..Len(attempts) :
        /\ attempts[i].checks >= 1 => ~attempts[i].listener /\ ~attempts[i].interval
        /\ attempts[i].checks <= 1
        /\ attempts[i].toasts <= 1

\* C9 as claimed: a timeout that fires before either watcher closes the popup,
\* removes the listener and the poll, and leaves loading=false and
\* isConnected=false with an error set.
C9_TimeoutDisconnects ==
    [][\A i \in 1..Len(attempts) :
          (Timeout(i) /\ attempts[i].checks = 0) =>
              /\ popups'[attempts[i].popup] = "closed"
              /\ ~attempts'[i].listener /\ ~attempts'[i].interval
              /\ ~state'.loading
              /\ ~state'.isConnected
              /\ state'.error # Null]_vars

\* C10 as claimed: at most one attempt that opened a popup is in flight.
C10_OneAttemptInFlight ==
    Cardinality({i \in 1..Len(attempts) : InFlight(i)}) <= 1

\* C18: a message of the page's own origin finalizes every listening
\* attempt for either success shape, the string "google_calendar_connected"
\* and {type: "GOOGLE_AUTH_SUCCESS"}: the listener is removed and a
\* checkConnection() is issued for it.
C18_BothShapesFinalize ==
    [][\A data \in MessageData :
          (Listening # {} /\ MessageEvent(OwnOrigin, data)) =>
              \A i \in Listening :
                 /\ ~attempts'[i].listener
                 /\ Task("message", i) \in tasks']_vars

\* C19: when window.open returns no popup, connect() resolves to false with
\* loading=false and the error that asks to allow popups, leaves isConnected
\* and events as they were and registers no listener, no poll and no
\* timeout; no popup is open for it and no checkConnection() is issued.
C19_BlockedPopup ==
    [][\A i \in 1..Len(attempts) :
          ConnectResolve(i, "blocked") =>
              /\ attempts'[i].pc = "failed"
              /\ ~state'.loading
              /\ state'.error = PopupBlockedError
              /\ state'.isConnected = state.isConnected
              /\ state'.events = state.events
              /\ ~attempts'[i].listener
              /\ ~attempts'[i].interval
              /\ ~attempts'[i].timeout
              /\ attempts'[i].popup = 0
              /\ popups' = popups /\ tasks' = tasks]_vars

\* connect() has resolved to false on a blocked popup.
C19_Witness ==
    /\ \E i \in 1..Len(attempts) :
          /\ attempts[i].pc = "failed"
          /\ ~attempts[i].listener /\ ~attempts[i].interval /\ ~attempts[i].timeout
    /\ state.error = PopupBlockedError
    /\ ~state.loading

\* C26 as claimed: once a watcher has finalized an attempt (it has issued its
\* checkConnection()), neither the poll timer nor the 2-minute timeout of
\* that attempt changes the hook's state, so loading stays true while a later
\* call is still awaiting its answer.
C26_FinalizedAttemptIsSilent ==
    [][\A i \in 1..Len(attempts) :
          (attempts[i].checks > 0 /\ (Timeout(i) \/ PollTick(i))) =>
              /\ state' = state
              /\ tasks # {} => state'.loading]_vars

\* C21: every step that issues a checkConnection() sets loading=true and
\* clears error, and the step in which the call ends sets loading=false
\* with isConnected equal to the connected value of a status answer that
\* succeeded, and isConnected=false in every other outcome, with error set
\* unless the session was missing.
C21_CheckConnectionOutcomes ==
    [][/\ (tasks' \ tasks # {}) => (state'.loading /\ state'.error = Null)
       /\ \A t \in tasks, outcome \in CheckOutcomes :
             CheckConnectionDone(t, outcome) =>
                 /\ ~state'.loading
                 /\ IF outcome \in {"connected", "disconnected"}
                    THEN state'.isConnected = (outcome = "connected")
                    ELSE /\ ~state'.isConnected
                         /\ outcome # "no session" => state'.error # Null]_vars

\* A check issued by a watcher of an attempt has failed.
C21_Witness ==
    /\ \E i \in 1..Len(attempts) : attempts[i].checks > 0
    /\ tasks = {}
    /\ state.error = CheckFailedError /\ ~state.loading /\ ~state.isConnected

-----------------------------------------------------------------------------
(* Properties of the callers of checkConnection() (SpecCheck) *)

\* C25: checkConnection() never rejects: for every outcome it resolves to a
\* boolean, false on every failure, so the catch branches around it (the
\* page's, which sets integrationError, and the dialog's, which set
\* localError) are never taken.
C25_CheckConnectionNeverRejects ==
    /\ \A outcome \in CheckOutcomes :
          LET r == checkConnection(state, outcome) IN
          /\ ~r.rejected
          /\ r.result \in BOOLEAN
          /\ outcome # "connected" => r.result = FALSE
    /\ page.integrationError = Null
    /\ dialog.localError = Null

\* The page's check met a 404 and a check of the dialog failed; both
\* callers went on after their await.
C25_Witness ==
    /\ page.hasCheckedConnection /\ page.hook.error = NotFoundError
    /\ dialog.isSettingsOpen /\ ~dialog.localLoading /\ tasks = {}
    /\ state.error = CheckFailedError
    /\ dialog.connectionAttempt > 0

-----------------------------------------------------------------------------
(* Properties of the event operations (SpecOps) *)

\* What an operation returns when it fails.
FailureValue(op) ==
    IF op = "fetchEvents" THEN "[]"
    ELSE IF op \in {"deleteEvent", "disconnect"} THEN "false" ELSE "null"

\* C17: the step in which the request of fetchEvents, createEvent,
\* updateEvent, deleteEvent or disconnect of the provider hook, or of
\* addEvent, updateEvent or deleteEvent of the local hook, fails leaves the
\* hook's event list and the provider hook's isConnected as they were,
\* returns the operation's failure value and leaves no request in flight
\* for the operation.
C17_FailureLeavesState ==
    [][/\ \A o \in ops, outcome \in {"no session", "failed"} :
             (/\ o.hook = "provider"
              /\ ProviderDone(o, outcome, NoId, NoProviderEvent, <<>>)) =>
                 /\ state'.events = state.events
                 /\ state'.isConnected = state.isConnected
                 /\ crmEvents' = crmEvents
                 /\ ProviderResult(state, o.op, outcome, NoId, NoProviderEvent,
                                   <<>>).value = FailureValue(o.op)
                 /\ ops' = ops \ {o}
       /\ \A o \in ops :
             (o.hook = "local" /\ LocalDone(o, FALSE, NoId, NoLocalEvent)) =>
                 /\ crmEvents' = crmEvents
                 /\ state' = state
                 /\ LocalResult(crmEvents, o.op, FALSE, NoId, NoLocalEvent).value
                        = FailureValue(o.op)
                 /\ ops' = ops \ {o}]_vars

\* The provider hook after a fetch that failed: still connected, its events
\* kept, nothing in flight.
C17_Witness ==
    /\ state.error = "Failed to fetch events" /\ ~state.loading
    /\ state.isConnected /\ Len(state.events) = MaxProvider
    /\ crmEvents # <<>> /\ ops = {}

\* C28: the step in which the request of an operation of the provider hook
\* succeeds changes the cached list exactly so: createEvent appends the
\* returned event and the list grows by one; updateEvent(id) puts the returned
\* event at every position whose entry has that id and keeps the other
\* entries, the length and the order; deleteEvent(id) leaves the entries of
\* another id, in order; disconnect empties the list and sets
\* isConnected=false.
C28_CacheTracksMutations ==
    [][\A o \in ops, id \in EventIds, ev \in ProviderEvents :
          /\ (o = Op("provider", "createEvent")
                 /\ ProviderDone(o, "ok", NoId, ev, <<>>)) =>
                /\ Len(state'.events) = Len(state.events) + 1
                /\ state'.events[Len(state'.events)] = ev
                /\ SubSeq(state'.events, 1, Len(state.events)) = state.events
          /\ (o = Op("provider", "updateEvent")
                 /\ ProviderDone(o, "ok", id, ev, <<>>)) =>
                /\ Len(state'.events) = Len(state.events)
                /\ \A k \in 1..Len(state.events) :
                      /\ state.events[k].id = id => state'.events[k] = ev
                      /\ state.events[k].id # id => state'.events[k] = state.events[k]
          /\ (o = Op("provider", "deleteEvent")
                 /\ ProviderDone(o, "ok", id, NoProviderEvent, <<>>)) =>
                state'.events = SelectSeq(state.events, LAMBDA e : e.id # id)
          /\ (o = Op("provider", "disconnect")
                 /\ ProviderDone(o, "ok", NoId, NoProviderEvent, <<>>)) =>
                state'.events = <<>> /\ ~state'.isConnected]_vars

\* The cached list holds two entries of one id, both the all-day event an
\* update returned, and nothing is in flight.
C28_Witness ==
    /\ state.isConnected /\ ~state.loading /\ ops = {}
    /\ Len(state.events) = MaxProvider
    /\ \A k \in 1..Len(state.events) :
          state.events[k] = [NoProviderEvent EXCEPT !.id = "e2", !.timed = FALSE]

\* C27: while isConnected is false, a call of fetchEvents, createEvent,
\* updateEvent or deleteEvent of the provider hook returns at its guard: it
\* starts no session lookup and no request, returns [], null, null and false
\* respectively, and leaves isConnected, events, loading and error as they
\* were.
C27_DisconnectedOpsDoNothing ==
    [][\A op \in ProviderOps \ {"disconnect"} :
          (~state.isConnected /\ ProviderCall(op)) =>
              /\ state' = state
              /\ ops' = ops
              /\ ~ProviderStart(state, op).request
              /\ refused' \ refused \subseteq
                    {[op |-> op, value |-> FailureValue(op)]}]_vars

\* After a disconnect each of the four event operations has been called and
\* has returned at its guard, while an operation of the local hook awaits
\* its answer.
C27_Witness ==
    /\ ~state.isConnected /\ ~state.loading /\ state.error = Null
    /\ {r.op : r \in refused} = ProviderOps \ {"disconnect"}
    /\ \E o \in ops : o.hook = "local"

-----------------------------------------------------------------------------
(* Properties of the page and the dialog end to end (SpecPage) *)

\* The user has completed a connection through the dialog while the page is
\* mounted: the page has made its check, the record is enabled, the dialog's
\* hook instance is connected, every popup is closed and nothing is awaited.
ConnectedThroughDialog ==
    /\ page.hasCheckedConnection
    /\ Len(attempts) > 0
    /\ \A w \in 1..Len(popups) : popups[w] = "closed"
    /\ EnabledRows(user_integrations, "u1") # {}
    /\ state.isConnected
    /\ tasks = {}

\* The unified view holds the local event and the provider's two events.
ShowsThreeEvents ==
    /\ formattedEvents # Unrendered
    /\ Len(formattedEvents) = 3
    /\ {formattedEvents[k] : k \in 1..Len(formattedEvents)} =
          {getCrmEvents(LocalStore)[k] : k \in 1..Len(LocalStore)} \cup
          {getGoogleEvents(ProviderCalendar)[k] : k \in 1..Len(ProviderCalendar)}

\* C20: once the user has completed a connection through the dialog while
\* the page is mounted, the page's unified view eventually holds exactly
\* the local event and the provider's two events.
C20_UnifiedViewShowsThree == ConnectedThroughDialog ~> ShowsThreeEvents

-----------------------------------------------------------------------------
(* Properties of the calendar page (SpecMerge) *)

\* C7: with the hook connected, the rendered list of N local and M provider
\* events has N+M entries: the N local ones in their order, normalised by the
\* local mapping, then the M provider ones in their order, normalised by the
\* provider mapping; shared ids do not merge entries.
C7_MergeKeepsAll ==
    (page.hook.isConnected /\ formattedEvents # Unrendered) =>
        LET N == Len(crmEvents)
            M == Len(page.hook.events)
        IN
        /\ Len(formattedEvents) = N + M
        /\ \A k \in 1..N :
              formattedEvents[k] =
                  [id |-> crmEvents[k].id, title |-> crmEvents[k].title,
                   start |-> "event.start", end |-> "event.end",
                   allDay |-> crmEvents[k].allDay, source |-> Undefined]
        /\ \A k \in 1..M :
              formattedEvents[N + k] =
                  [id |-> page.hook.events[k].id, title |-> page.hook.events[k].summary,
                   start |-> IF page.hook.events[k].timed
                             THEN "start.dateTime" ELSE "start.date",
                   end |-> IF page.hook.events[k].timed
                           THEN "end.dateTime" ELSE "end.date",
                   allDay |-> ~page.hook.events[k].timed, source |-> "google"]

\* The page rendered, connected, the full number of local and of provider
\* events, among them a local and a provider event of one id.
C7_Witness ==
    /\ page.hook.isConnected /\ formattedEvents # Unrendered
    /\ Len(crmEvents) = MaxLocal /\ Len(page.hook.events) = MaxProvider
    /\ \E j \in 1..Len(crmEvents), k \in 1..Len(page.hook.events) :
          crmEvents[j].id = page.hook.events[k].id
    /\ Len(formattedEvents) = MaxLocal + MaxProvider

\* C24 as claimed: an updateEvent(id, eventData) of the local hook that
\* names the all-day flag and succeeds leaves the stored row of id and the
\* cached event of id with allDay = eventData.allDay.
C24_UpdatePersistsAllDay ==
    [][\A id \in EventIds, eventData \in UpdateData :
          (/\ "allDay" \in eventData.fields
           /\ id \in RowIds(calendar_events)
           /\ StoreUpdateEvent(id, eventData, TRUE)) =>
              /\ \A k \in 1..Len(calendar_events') :
                    calendar_events'[k].id = id =>
                        calendar_events'[k].allDay = eventData.allDay
              /\ \A k \in 1..Len(crmEvents') :
                    crmEvents'[k].id = id => crmEvents'[k].allDay = eventData.allDay]_vars

\* C29: the provider formatting gives allDay=true exactly to an event
\* without start.dateTime, takes start.dateTime and end.dateTime when present
\* and start.date and end.date otherwise, keeps the id and always sets the
\* source "google"; the local formatting sets no source, so no rendered
\* provider entry equals a rendered local entry, whatever their ids.
C29_ProviderEventsNormalized ==
    (page.hook.isConnected /\ formattedEvents # Unrendered) =>
        LET N == Len(crmEvents) IN
        \A k \in 1..(Len(formattedEvents) - N) :
            LET f == formattedEvents[N + k]
                e == page.hook.events[k]
            IN
            /\ f.allDay <=> StartOf(e).dateTime = Undefined
            /\ f.start = (IF StartOf(e).dateTime # Undefined
                          THEN StartOf(e).dateTime ELSE StartOf(e).date)
            /\ f.end = (IF EndOf(e).dateTime # Undefined
                        THEN EndOf(e).dateTime ELSE EndOf(e).date)
            /\ f.start # Undefined /\ f.end # Undefined
            /\ f.id = e.id
            /\ f.source = "google"
            /\ \A j \in 1..N : formattedEvents[j].source # "google"

\* The page rendered a timed and an all-day provider event behind a local
\* event that has the id of one of them.
C29_Witness ==
    /\ page.hook.isConnected /\ formattedEvents # Unrendered
    /\ Len(crmEvents) = 1 /\ Len(formattedEvents) = 3
    /\ formattedEvents[1].source = Undefined
    /\ formattedEvents[2].id = formattedEvents[1].id
    /\ formattedEvents[2].start = "start.dateTime" /\ ~formattedEvents[2].allDay
    /\ formattedEvents[3].start = "start.date" /\ formattedEvents[3].allDay

=============================================================================
